---- MODULE Spec2Model ----
(***************************************************************************)
(* Batch gradient descent of the two demo notebooks                        *)
(*   gradient_descent_demo_1D.ipynb  (update_plot,  one parameter  theta1) *)
(*   gradient_descent_demo_2D.ipynb  (update_plots, two parameters theta)  *)
(*                                                                         *)
(* Numbers.  The notebooks compute with numpy float64.  Every divisor the  *)
(* code applies is m = 20 (alpha / m, np.average), m - 1 = 19 (the step of *)
(* np.linspace(-1, 1, m)) or 2 (cost_func), and every slider value is a    *)
(* multiple of 0.05 or 0.1, so every value the code computes is a rational *)
(* n / Den^k with Den = m * (m - 1).  The model computes with exactly      *)
(* these rationals: a number is a record [neg, mag, exp] that stands for   *)
(* (-1)^neg * mag / Den^exp, where mag is a natural number written as a    *)
(* little-endian sequence of limbs in base Den.  Numbers are kept in       *)
(* normal form (no leading zero limb, the least exp possible, zero is not  *)
(* negative), so two numbers are the same value iff they are the same      *)
(* record.  Rounding, inf and nan of float64 are not modelled.             *)
(***************************************************************************)
EXTENDS Integers, Sequences, FiniteSets, TLC

\* the sample count of both notebooks
m == 20

\* common denominator and limb base: alpha / m and np.average divide by m,
\* np.linspace(-1, 1, m) divides by m - 1
Den == m * (m - 1)

----------------------------------------------------------------------------
(* natural numbers as little-endian limb sequences in base Den *)

Limb(a, i) == IF 1 <= i /\ i <= Len(a) THEN a[i] ELSE 0

Zeros(k) == [i \in 1..k |-> 0] \o <<>>

\* the index of the highest non-zero limb, 0 when there is none
Top(a) ==
    IF a = <<>> THEN 0
    ELSE IF a[Len(a)] # 0 THEN Len(a)
    ELSE LET nz == {i \in 1..Len(a) : a[i] # 0}
         IN  IF nz = {} THEN 0 ELSE CHOOSE i \in nz : \A k \in nz : k <= i

\* the index of the lowest non-zero limb of a non-zero a
Bottom(a) ==
    IF a[1] # 0 THEN 1
    ELSE LET nz == {i \in 1..Len(a) : a[i] # 0}
         IN  CHOOSE i \in nz : \A k \in nz : i <= k

MagTrim(a) == SubSeq(a, 1, Top(a))

\* one pass of carry propagation over limbs that may lie outside 0..Den-1
CarryPass(c) ==
    [k \in 1..(Len(c) + 1) |->
        (Limb(c, k) % Den) + (Limb(c, k - 1) \div Den)] \o <<>>

RECURSIVE Carry(_)
Carry(c) ==
    IF \A k \in 1..Len(c) : 0 <= c[k] /\ c[k] < Den THEN MagTrim(c)
    ELSE Carry(CarryPass(c))

\* -1, 0, 1 as a < b, a = b, a > b
MagCmp(a, b) ==
    IF Len(a) < Len(b) THEN -1
    ELSE IF Len(a) > Len(b) THEN 1
    ELSE LET df == {i \in 1..Len(a) : a[i] # b[i]}
         IN  IF df = {} THEN 0
             ELSE LET i == CHOOSE i \in df : \A k \in df : k <= i
                  IN  IF a[i] < b[i] THEN -1 ELSE 1

MagAdd(a, b) ==
    Carry([k \in 1..(IF Len(a) > Len(b) THEN Len(a) ELSE Len(b)) |->
             Limb(a, k) + Limb(b, k)] \o <<>>)

\* a - b for a >= b
MagSub(a, b) == Carry([k \in 1..Len(a) |-> a[k] - Limb(b, k)] \o <<>>)

\* the sum of a[i] * b[k + 1 - i] for i in lo..hi: column k of the product
RECURSIVE MagColumn(_, _, _, _, _)
MagColumn(a, b, k, lo, hi) ==
    IF lo > hi THEN 0
    ELSE IF lo = hi THEN a[lo] * b[k + 1 - lo]
    ELSE LET mid == (lo + hi) \div 2
         IN  MagColumn(a, b, k, lo, mid) + MagColumn(a, b, k, mid + 1, hi)

MagMul(a, b) ==
    IF a = <<>> \/ b = <<>> THEN <<>>
    ELSE Carry([k \in 1..(Len(a) + Len(b) - 1) |->
                  MagColumn(a, b, k,
                            IF k > Len(b) THEN k + 1 - Len(b) ELSE 1,
                            IF k > Len(a) THEN Len(a) ELSE k)] \o <<>>)

----------------------------------------------------------------------------
(* the numbers of the program: (-1)^neg * mag / Den^exp in normal form *)

Zero == [neg |-> FALSE, mag |-> <<>>, exp |-> 0]

Norm(neg, mag, exp) ==
    LET t == MagTrim(mag)
    IN  IF t = <<>> THEN Zero
        ELSE LET low  == Bottom(t) - 1
                 drop == IF low < exp THEN low ELSE exp
             IN  [neg |-> neg,
                  mag |-> SubSeq(t, drop + 1, Len(t)),
                  exp |-> exp - drop]

\* the integer n, |n| < Den^3
Num(n) ==
    LET a == IF n < 0 THEN -n ELSE n
    IN  Norm(n < 0, <<a % Den, (a \div Den) % Den, a \div (Den * Den)>>, 0)

Neg(a) == IF a = Zero THEN Zero ELSE [a EXCEPT !.neg = ~a.neg]

Add(a, b) ==
    LET e  == IF a.exp > b.exp THEN a.exp ELSE b.exp
        ma == Zeros(e - a.exp) \o a.mag
        mb == Zeros(e - b.exp) \o b.mag
        c  == MagCmp(ma, mb)
    IN  IF a = Zero THEN b
        ELSE IF b = Zero THEN a
        ELSE IF a.neg = b.neg THEN Norm(a.neg, MagAdd(ma, mb), e)
        ELSE IF c = 0 THEN Zero
        ELSE IF c > 0 THEN Norm(a.neg, MagSub(ma, mb), e)
        ELSE Norm(b.neg, MagSub(mb, ma), e)

Sub(a, b) == Add(a, Neg(b))

Mul(a, b) == Norm(a.neg # b.neg, MagMul(a.mag, b.mag), a.exp + b.exp)

\* a / d for a divisor d of Den (2, m - 1, m, ...): a * (Den / d) / Den
DivBy(a, d) == Norm(a.neg, MagMul(a.mag, <<Den \div d>>), a.exp + 1)

\* the decimal fraction n / d, d a divisor of Den
Frac(n, d) == DivBy(Num(n), d)

Less(a, b) == Sub(a, b).neg

LessEq(a, b) == ~Less(b, a)

Abs(a) == [a EXCEPT !.neg = FALSE]

----------------------------------------------------------------------------
(* numpy *)

\* np.linspace(start, stop, num): start + i * (stop - start) / (num - 1)
linspace(start, stop, num) ==
    [i \in 1..num |->
        Add(start, Mul(Num(i - 1), DivBy(Sub(stop, start), num - 1)))] \o <<>>

\* np.sum of v[lo..hi], summed pairwise
RECURSIVE np_sum_range(_, _, _)
np_sum_range(v, lo, hi) ==
    IF lo = hi THEN v[lo]
    ELSE LET mid == (lo + hi) \div 2
         IN  Add(np_sum_range(v, lo, mid), np_sum_range(v, mid + 1, hi))

np_sum(v) == IF v = <<>> THEN Zero ELSE np_sum_range(v, 1, Len(v))

np_average(v) == DivBy(np_sum(v), Len(v))

\* for j in range(stop): the values j takes
range(stop) == 0..(stop - 1)

----------------------------------------------------------------------------
(* numpy arrays of up to two dimensions: a shape and the elements in
   row-major order; a scalar has the shape <<>> *)

ndarray(shape, data) == [shape |-> shape, data |-> data]

\* no array: the name is not bound yet
no_array == ndarray(<<0>>, <<>>)

\* np.asarray of a float
asarray_scalar(v) == ndarray(<<>>, <<v>>)

\* a one-dimensional array of the values v
asarray_1d(v) == ndarray(<<Len(v)>>, v)

n_rows(a) == IF Len(a.shape) >= 2 THEN a.shape[Len(a.shape) - 1] ELSE 1

n_cols(a) == IF Len(a.shape) >= 1 THEN a.shape[Len(a.shape)] ELSE 1

\* a[r][c] of a two-dimensional array, r and c counted from 1
at(a, r, c) == a.data[(r - 1) * a.shape[2] + c]

\* the element of a that broadcasting pairs with position (r, c) of the
\* result: an axis of length 1, or a missing axis, is repeated
broadcast_at(a, r, c) ==
    a.data[(IF n_rows(a) = 1 THEN 0 ELSE r - 1) * n_cols(a)
           + (IF n_cols(a) = 1 THEN 1 ELSE c)]

\* the shape of a binary operation on a and b, for shapes numpy can broadcast
broadcast_shape(a, b) ==
    LET rs == IF n_rows(a) > n_rows(b) THEN n_rows(a) ELSE n_rows(b)
        cs == IF n_cols(a) > n_cols(b) THEN n_cols(a) ELSE n_cols(b)
        nd == IF Len(a.shape) > Len(b.shape) THEN Len(a.shape) ELSE Len(b.shape)
    IN  IF nd = 0 THEN <<>> ELSE IF nd = 1 THEN <<cs>> ELSE <<rs, cs>>

\* a + b
nd_add(a, b) ==
    LET sh == broadcast_shape(a, b)
        cs == IF sh = <<>> THEN 1 ELSE sh[Len(sh)]
        rs == IF Len(sh) = 2 THEN sh[1] ELSE 1
    IN  ndarray(sh, [k \in 1..(rs * cs) |->
                        Add(broadcast_at(a, ((k - 1) \div cs) + 1, ((k - 1) % cs) + 1),
                            broadcast_at(b, ((k - 1) \div cs) + 1, ((k - 1) % cs) + 1))]
                    \o <<>>)

\* a - b
nd_sub(a, b) ==
    LET sh == broadcast_shape(a, b)
        cs == IF sh = <<>> THEN 1 ELSE sh[Len(sh)]
        rs == IF Len(sh) = 2 THEN sh[1] ELSE 1
    IN  ndarray(sh, [k \in 1..(rs * cs) |->
                        Sub(broadcast_at(a, ((k - 1) \div cs) + 1, ((k - 1) % cs) + 1),
                            broadcast_at(b, ((k - 1) \div cs) + 1, ((k - 1) % cs) + 1))]
                    \o <<>>)

\* a * b
nd_mul(a, b) ==
    LET sh == broadcast_shape(a, b)
        cs == IF sh = <<>> THEN 1 ELSE sh[Len(sh)]
        rs == IF Len(sh) = 2 THEN sh[1] ELSE 1
    IN  ndarray(sh, [k \in 1..(rs * cs) |->
                        Mul(broadcast_at(a, ((k - 1) \div cs) + 1, ((k - 1) % cs) + 1),
                            broadcast_at(b, ((k - 1) \div cs) + 1, ((k - 1) % cs) + 1))]
                    \o <<>>)

\* a ** 2
nd_square(a) ==
    ndarray(a.shape, [k \in 1..Len(a.data) |-> Mul(a.data[k], a.data[k])] \o <<>>)

\* a / d for a divisor d of Den
nd_div(a, d) ==
    ndarray(a.shape, [k \in 1..Len(a.data) |-> DivBy(a.data[k], d)] \o <<>>)

\* np.atleast_2d(a): axes of length 1 are put in front
atleast_2d(a) ==
    IF Len(a.shape) >= 2 THEN a
    ELSE IF Len(a.shape) = 1 THEN ndarray(<<1>> \o a.shape, a.data)
    ELSE ndarray(<<1, 1>>, a.data)

\* a.reshape(-1, 1) and, for a one-dimensional a, a[:, np.newaxis]
reshape_column(a) == ndarray(<<Len(a.data), 1>>, a.data)

\* mutant: the elements are read column by column, a.flatten('F')
flatten_column_major(a) ==
    ndarray(<<Len(a.data)>>,
            [k \in 1..Len(a.data) |->
                at(a, ((k - 1) % a.shape[1]) + 1, ((k - 1) \div a.shape[1]) + 1)]
            \o <<>>)

\* a.flatten(): the elements row by row
flatten(a) == ndarray(<<Len(a.data)>>, a.data)

\* a.reshape(shape), the elements taken row by row
reshape(a, shape) == ndarray(shape, a.data)

\* np.average(a, axis=1) of a two-dimensional a: one average per row
np_average_axis1(a) ==
    ndarray(<<a.shape[1]>>,
            [r \in 1..a.shape[1] |->
                np_average(SubSeq(a.data, (r - 1) * a.shape[2] + 1, r * a.shape[2]))]
            \o <<>>)

\* np.meshgrid(g0, g1): both of shape (len(g1), len(g0)),
\* X[r][c] = g0[c] and Y[r][c] = g1[r]
meshgrid(g0, g1) ==
    [X |-> ndarray(<<Len(g1), Len(g0)>>,
                   [k \in 1..(Len(g1) * Len(g0)) |-> g0[((k - 1) % Len(g0)) + 1]] \o <<>>),
     Y |-> ndarray(<<Len(g1), Len(g0)>>,
                   [k \in 1..(Len(g1) * Len(g0)) |-> g1[((k - 1) \div Len(g0)) + 1]] \o <<>>)]

----------------------------------------------------------------------------
(* state *)

VARIABLES
    x_1D, y_1D,     \* the module-level data x, y of the 1D notebook
    x_2D,           \* the module-level x of the 2D notebook
    y,              \* the global y of the 2D notebook: <<>> for None
    fn,             \* the function called last: "none", "update_plot", "update_plots"
    pc,             \* "idle", "loop" (in the descent loop), "returned",
                    \* "UnboundLocalError", "IndexError" (the call raised)
    N, alpha,       \* arguments of the call
    theta1,         \* update_plot: the start value
    theta_true,     \* update_plots: <<theta0_true, theta1_true>>
    theta_start,    \* update_plots: <<theta0_start, theta1_start>>
    theta1_values,  \* update_plot: the list of parameter values
    J_values,       \* update_plot: the list of costs
    theta,          \* update_plots: the list of parameter vectors
    J,              \* update_plots: the list of costs
    y_found,        \* update_plots: the global y as the call found it on entry
    theta1_grid,    \* update_plot: the lattice of theta1 values
    X, Y,           \* update_plots: the lattice of (theta0, theta1) pairs
    J_grid,         \* the cost at the lattice
    j               \* the loop variable of the call: <<>> while unbound, else <<value>>

globals == <<x_1D, y_1D, x_2D, y>>

\* the arrays of the cost surface
grids == <<theta1_grid, X, Y, J_grid>>

frame == <<fn, pc, N, alpha, theta1, theta_true, theta_start,
           theta1_values, J_values, theta, J, y_found, grids, j>>

vars == <<globals, frame>>

----------------------------------------------------------------------------
(* gradient_descent_demo_1D.ipynb *)

theta1_true == Frac(1, 2)

hypothesis_1D(xs, t1) == [i \in 1..Len(xs) |-> Mul(t1, xs[i])] \o <<>>

cost_func_1D(t1) ==
    LET h == hypothesis_1D(x_1D, t1)
        r == [i \in 1..m |-> Sub(y_1D[i], h[i])] \o <<>>
    IN  DivBy(np_average([i \in 1..m |-> Mul(r[i], r[i])] \o <<>>), 2)

\* hypothesis on arrays: theta1 * x with broadcasting
hypothesis_1D_nd(xs, t1) == nd_mul(t1, xs)

\* cost_func on arrays: one cost per row of np.atleast_2d(theta1)
cost_func_1D_nd(t1) ==
    LET t == atleast_2d(t1)
    IN  nd_div(np_average_axis1(
                  nd_square(nd_sub(asarray_1d(y_1D),
                                   hypothesis_1D_nd(asarray_1d(x_1D), t)))), 2)

\* the number of lattice values taken (the notebook takes 50)
theta1_grid_num_1D == 5

\* theta1_grid = np.linspace(-0.2, 1.2, 50)
theta1_grid_of_1D ==
    asarray_1d(linspace(Frac(-1, 5), Frac(6, 5), theta1_grid_num_1D))

\* J_grid = cost_func(theta1_grid[:, np.newaxis])
J_grid_of_1D(g) == cost_func_1D_nd(reshape_column(g))

\* mutant: the step climbs the gradient, last_theta1 + alpha / m * sum
this_theta1_of_ascent(last_theta1, a) ==
    LET h == hypothesis_1D(x_1D, last_theta1)
    IN  Add(last_theta1,
            Mul(DivBy(a, m),
                np_sum([i \in 1..m |->
                          Mul(Sub(h[i], y_1D[i]), x_1D[i])] \o <<>>)))

\* mutant: the sum is not divided by m, last_theta1 - alpha * sum
this_theta1_of_undivided(last_theta1, a) ==
    LET h == hypothesis_1D(x_1D, last_theta1)
    IN  Sub(last_theta1,
            Mul(a,
                np_sum([i \in 1..m |->
                          Mul(Sub(h[i], y_1D[i]), x_1D[i])] \o <<>>)))

\* this_theta1 of one pass of the loop
this_theta1_of(last_theta1, a) ==
    LET h == hypothesis_1D(x_1D, last_theta1)
    IN  Sub(last_theta1,
            Mul(DivBy(a, m),
                np_sum([i \in 1..m |->
                          Mul(Sub(h[i], y_1D[i]), x_1D[i])] \o <<>>)))

\* the two lists after one pass of the loop
descent_pass_1D(thetas, Js, a) ==
    LET last_theta1 == thetas[Len(thetas)]
        this_theta1 == this_theta1_of(last_theta1, a)
    IN  [theta1_values |-> Append(thetas, this_theta1),
         J_values      |-> Append(Js, cost_func_1D(this_theta1))]

\* mutant: the loop runs once too often, "for j in range(N)"
descent_range_1D_off_by_one(n) == range(n)

\* the values of j in "for j in range(N - 1)"
descent_range_1D(n) == range(n - 1)

----------------------------------------------------------------------------
(* gradient_descent_demo_2D.ipynb *)

hypothesis_2D(xs, t0, t1) ==
    [i \in 1..Len(xs) |-> Add(t0, Mul(t1, xs[i]))] \o <<>>

cost_func_2D(xs, ys, t0, t1) ==
    LET h == hypothesis_2D(xs, t0, t1)
        r == [i \in 1..Len(xs) |-> Sub(ys[i], h[i])] \o <<>>
    IN  DivBy(np_average([i \in 1..Len(xs) |-> Mul(r[i], r[i])] \o <<>>), 2)

\* hypothesis on arrays: theta0.reshape(-1, 1) + theta1 * x
hypothesis_2D_nd(xs, t0, t1) == nd_add(reshape_column(t0), nd_mul(t1, xs))

\* cost_func on arrays: one cost per element of theta0 and theta1
cost_func_2D_nd(xs, ys, t0, t1) ==
    nd_div(np_average_axis1(
              nd_square(nd_sub(ys, hypothesis_2D_nd(xs, t0, reshape_column(t1))))), 2)

\* the numbers of lattice values taken (the notebook takes 101 and 101)
theta0_grid_num == 2

theta1_grid_num_2D == 5

\* X, Y = np.meshgrid(np.linspace(-4, 4, 101), np.linspace(-5, 5, 101))
grid_of_2D ==
    meshgrid(linspace(Num(-4), Num(4), theta0_grid_num),
             linspace(Num(-5), Num(5), theta1_grid_num_2D))

\* J_grid = cost_func(x, y, X.flatten(), Y.flatten()).reshape(X.shape)
J_grid_of_2D(xs, ys, Xg, Yg) ==
    reshape(cost_func_2D_nd(asarray_1d(xs), asarray_1d(ys), flatten(Xg), flatten(Yg)),
            Xg.shape)

\* mutant: the intercept is left out of the data, y = theta1_true * x
dataset_2D_no_intercept(xs, t0_true, t1_true) ==
    [i \in 1..Len(xs) |-> Mul(t1_true, xs[i])] \o <<>>

\* mutant: y is generated only while it is None, a later call keeps the y of
\* the call before it
dataset_2D_kept_when_set(xs, t0_true, t1_true) ==
    IF y = <<>>
    THEN [i \in 1..Len(xs) |-> Add(t0_true, Mul(t1_true, xs[i]))] \o <<>>
    ELSE y

\* y = theta0_true + theta1_true * x
dataset_2D(xs, t0_true, t1_true) ==
    [i \in 1..Len(xs) |-> Add(t0_true, Mul(t1_true, xs[i]))] \o <<>>

\* mutant: the theta1 update repeats the theta0 update, without the factor x
this_theta_of_without_x(last_theta, a, xs, ys) ==
    LET h  == hypothesis_2D(xs, last_theta[1], last_theta[2])
        r  == [i \in 1..m |-> Sub(h[i], ys[i])] \o <<>>
        t0 == Sub(last_theta[1], Mul(DivBy(a, m), np_sum(r)))
        t1 == Sub(last_theta[2], Mul(DivBy(a, m), np_sum(r)))
    IN  <<t0, t1>>

\* mutant: both components climb the gradient, last_theta + alpha / m * sum
this_theta_of_ascent(last_theta, a, xs, ys) ==
    LET h  == hypothesis_2D(xs, last_theta[1], last_theta[2])
        r  == [i \in 1..m |-> Sub(h[i], ys[i])] \o <<>>
        t0 == Add(last_theta[1], Mul(DivBy(a, m), np_sum(r)))
        t1 == Add(last_theta[2],
                  Mul(DivBy(a, m),
                      np_sum([i \in 1..m |-> Mul(r[i], xs[i])] \o <<>>)))
    IN  <<t0, t1>>

\* this_theta of one pass of the loop: both components from last_theta
this_theta_of(last_theta, a, xs, ys) ==
    LET h  == hypothesis_2D(xs, last_theta[1], last_theta[2])
        r  == [i \in 1..m |-> Sub(h[i], ys[i])] \o <<>>
        t0 == Sub(last_theta[1], Mul(DivBy(a, m), np_sum(r)))
        t1 == Sub(last_theta[2],
                  Mul(DivBy(a, m),
                      np_sum([i \in 1..m |-> Mul(r[i], xs[i])] \o <<>>)))
    IN  <<t0, t1>>

\* mutant: the cost appended is the cost of last_theta
descent_pass_2D_stale_cost(thetas, Js, a, xs, ys) ==
    LET last_theta == thetas[Len(thetas)]
        this_theta == this_theta_of(last_theta, a, xs, ys)
    IN  [theta |-> Append(thetas, this_theta),
         J     |-> Append(Js, cost_func_2D(xs, ys, last_theta[1], last_theta[2]))]

\* mutant: this_theta is last_theta updated in place, so the entry appended
\* and the last entry are one array
descent_pass_2D_in_place(thetas, Js, a, xs, ys) ==
    LET last_theta == thetas[Len(thetas)]
        this_theta == this_theta_of(last_theta, a, xs, ys)
    IN  [theta |-> Append([thetas EXCEPT ![Len(thetas)] = this_theta], this_theta),
         J     |-> Append(Js, cost_func_2D(xs, ys, this_theta[1], this_theta[2]))]

descent_pass_2D(thetas, Js, a, xs, ys) ==
    LET last_theta == thetas[Len(thetas)]
        this_theta == this_theta_of(last_theta, a, xs, ys)
    IN  [theta |-> Append(thetas, this_theta),
         J     |-> Append(Js, cost_func_2D(xs, ys, this_theta[1], this_theta[2]))]

descent_range_2D(n) == range(n - 1)

----------------------------------------------------------------------------
(* the kernels after the cells have run, and the slider values sampled *)

\* the largest iteration count the sliders are moved to
MaxN == 3

N_values == 0..MaxN

alpha_values_1D == {Frac(1, 10), Frac(23, 20), Num(2)}

theta1_start_values == {Zero, Frac(1, 2), Frac(6, 5)}

alpha_values_2D == {Frac(1, 10), Frac(7, 10)}

theta_true_values == {<<Num(2), Num(2)>>, <<Num(-1), Frac(1, 2)>>}

theta_start_values == {<<Zero, Zero>>, <<Num(2), Num(2)>>, <<Num(-1), Frac(1, 2)>>}

Init ==
    /\ x_1D = linspace(Num(-1), Num(1), m)
    /\ y_1D = [i \in 1..m |-> Mul(theta1_true, x_1D[i])] \o <<>>
    /\ x_2D = linspace(Num(-1), Num(1), m)
    /\ y = <<>>
    /\ fn = "none"
    /\ pc = "idle"
    /\ N = 0
    /\ alpha = Zero
    /\ theta1 = Zero
    /\ theta_true = <<Zero, Zero>>
    /\ theta_start = <<Zero, Zero>>
    /\ theta1_values = <<>>
    /\ J_values = <<>>
    /\ theta = <<>>
    /\ J = <<>>
    /\ y_found = <<>>
    /\ theta1_grid = no_array
    /\ X = no_array
    /\ Y = no_array
    /\ J_grid = no_array
    /\ j = <<>>

\* the call has ended, by returning or by raising
Ended == pc \in {"returned", "UnboundLocalError", "IndexError"}

\* no call is running: the kernel takes the next slider event
Ready == pc = "idle"

\* the value of the loop variable in the next pass of a for loop over values
\* that count up from 0
NextIndex == IF j = <<>> THEN 0 ELSE j[1] + 1

----------------------------------------------------------------------------
(* update_plot(N, alpha, theta1) *)

\* entry to the start of the descent loop: the cost curve is computed first
update_plot(n, a, t) ==
    /\ Ready
    /\ fn' = "update_plot"
    /\ pc' = "loop"
    /\ N' = n
    /\ alpha' = a
    /\ theta1' = t
    /\ theta1_grid' = theta1_grid_of_1D
    /\ J_grid' = J_grid_of_1D(theta1_grid')
    /\ theta1_values' = <<t>>
    /\ J_values' = <<cost_func_1D(t)>>
    /\ j' = <<>>
    /\ UNCHANGED <<globals, theta_true, theta_start, theta, J, y_found, X, Y>>

\* one pass of "for j in range(N - 1)"
update_plot_descend ==
    /\ fn = "update_plot"
    /\ pc = "loop"
    /\ NextIndex \in descent_range_1D(N)
    /\ j' = <<NextIndex>>
    /\ \E after \in {descent_pass_1D(theta1_values, J_values, alpha)} :
          /\ theta1_values' = after.theta1_values
          /\ J_values' = after.J_values
    /\ UNCHANGED <<globals, fn, pc, N, alpha, theta1, theta_true, theta_start,
                   theta, J, y_found, grids>>

\* the loop is exhausted: "for j in range(N)" plots theta1_values[j], then the
\* final fit is plotted from theta1_values[j] with the j the loops left
update_plot_finish ==
    /\ fn = "update_plot"
    /\ pc = "loop"
    /\ NextIndex \notin descent_range_1D(N)
    /\ LET j_plot == IF N >= 1 THEN <<N - 1>> ELSE j
       IN  IF N > Len(theta1_values)
           THEN /\ pc' = "IndexError"
                /\ j' = <<Len(theta1_values)>>
           ELSE /\ pc' = IF j_plot = <<>> THEN "UnboundLocalError" ELSE "returned"
                /\ j' = j_plot
    /\ UNCHANGED <<globals, fn, N, alpha, theta1, theta_true, theta_start,
                   theta1_values, J_values, theta, J, y_found, grids>>

----------------------------------------------------------------------------
(* update_plots(N, alpha, theta0_true, theta1_true, theta0_start, theta1_start) *)

\* entry to the start of the descent loop: y is regenerated first
update_plots(n, a, tt, ts) ==
    /\ Ready
    /\ fn' = "update_plots"
    /\ pc' = "loop"
    /\ N' = n
    /\ alpha' = a
    /\ theta_true' = tt
    /\ theta_start' = ts
    /\ y_found' = y
    /\ y' = dataset_2D(x_2D, tt[1], tt[2])
    /\ theta' = <<ts>>
    /\ J' = <<cost_func_2D(x_2D, y', ts[1], ts[2])>>
    /\ j' = <<>>
    /\ UNCHANGED <<x_1D, y_1D, x_2D, theta1, theta1_values, J_values, grids>>

\* one pass of "for j in range(N - 1)"
update_plots_descend ==
    /\ fn = "update_plots"
    /\ pc = "loop"
    /\ NextIndex \in descent_range_2D(N)
    /\ j' = <<NextIndex>>
    /\ \E after \in {descent_pass_2D(theta, J, alpha, x_2D, y)} :
          /\ theta' = after.theta
          /\ J' = after.J
    /\ UNCHANGED <<globals, fn, pc, N, alpha, theta1, theta_true, theta_start,
                   theta1_values, J_values, y_found, grids>>

\* the loop is exhausted: the cost surface is computed, "for j in range(1, N)"
\* draws the arrows from theta[j - 1] to theta[j], then the final fit is
\* plotted from theta[j] with the j the loops left
update_plots_finish ==
    /\ fn = "update_plots"
    /\ pc = "loop"
    /\ NextIndex \notin descent_range_2D(N)
    /\ \E grid \in {grid_of_2D} :
          /\ X' = grid.X
          /\ Y' = grid.Y
    /\ J_grid' = J_grid_of_2D(x_2D, y, X', Y')
    /\ LET j_plot == IF N >= 2 THEN <<N - 1>> ELSE j
       IN  IF N > Len(theta)
           THEN /\ pc' = "IndexError"
                /\ j' = <<Len(theta)>>
           ELSE /\ pc' = IF j_plot = <<>> THEN "UnboundLocalError" ELSE "returned"
                /\ j' = j_plot
    /\ UNCHANGED <<globals, fn, N, alpha, theta1, theta_true, theta_start,
                   theta1_values, J_values, theta, J, y_found, theta1_grid>>

----------------------------------------------------------------------------
(* the frame of the ended call is dropped: its arguments and locals are gone,
   the global y stays *)

call_ends ==
    /\ Ended
    /\ fn' = "none"
    /\ pc' = "idle"
    /\ N' = 0
    /\ alpha' = Zero
    /\ theta1' = Zero
    /\ theta_true' = <<Zero, Zero>>
    /\ theta_start' = <<Zero, Zero>>
    /\ theta1_values' = <<>>
    /\ J_values' = <<>>
    /\ theta' = <<>>
    /\ J' = <<>>
    /\ y_found' = <<>>
    /\ theta1_grid' = no_array
    /\ X' = no_array
    /\ Y' = no_array
    /\ J_grid' = no_array
    /\ j' = <<>>
    /\ UNCHANGED globals

----------------------------------------------------------------------------
(* both notebooks, driven over a sample of the slider values *)

Next ==
    \/ \E n \in N_values, a \in alpha_values_1D, t \in theta1_start_values :
          update_plot(n, a, t)
    \/ update_plot_descend
    \/ update_plot_finish
    \/ \E n \in N_values, a \in alpha_values_2D,
          tt \in theta_true_values, ts \in theta_start_values :
          update_plots(n, a, tt, ts)
    \/ update_plots_descend
    \/ update_plots_finish
    \/ call_ends

Spec == Init /\ [][Next]_vars

----------------------------------------------------------------------------
(* the quantities the properties speak of *)

\* the formulas of the gradient of J = (1/2m) * sum((h(x_i) - y_i)^2)
\* for h(x) = theta1 * x
dJ_dtheta1_1D(t1) ==
    DivBy(np_sum([i \in 1..m |->
                    Mul(Sub(Mul(t1, x_1D[i]), y_1D[i]), x_1D[i])] \o <<>>), m)

\* for h(x) = theta0 + theta1 * x
dJ_dtheta0_2D(t) ==
    DivBy(np_sum([i \in 1..m |->
                    Sub(Add(t[1], Mul(t[2], x_2D[i])), y[i])] \o <<>>), m)

dJ_dtheta1_2D(t) ==
    DivBy(np_sum([i \in 1..m |->
                    Mul(Sub(Add(t[1], Mul(t[2], x_2D[i])), y[i]), x_2D[i])] \o <<>>), m)

One == Num(1)

\* J is quadratic, so its central difference with step 1 is its derivative:
\* J(t + 1) - J(t - 1) = 2 * dJ/dt
IsGradientOfCost_1D(t1) ==
    Sub(cost_func_1D(Add(t1, One)), cost_func_1D(Sub(t1, One)))
        = Mul(Num(2), dJ_dtheta1_1D(t1))

IsGradientOfCost_2D(t) ==
    /\ Sub(cost_func_2D(x_2D, y, Add(t[1], One), t[2]),
           cost_func_2D(x_2D, y, Sub(t[1], One), t[2]))
          = Mul(Num(2), dJ_dtheta0_2D(t))
    /\ Sub(cost_func_2D(x_2D, y, t[1], Add(t[2], One)),
           cost_func_2D(x_2D, y, t[1], Sub(t[2], One)))
          = Mul(Num(2), dJ_dtheta1_2D(t))

In1D == fn = "update_plot"

In2D == fn = "update_plots"

----------------------------------------------------------------------------
(* properties of both notebooks, checked under Spec *)

C2_StepIsAnalyticGradientStep ==
    /\ In1D =>
          \A k \in 1..(Len(theta1_values) - 1) :
              /\ theta1_values[k + 1] =
                    Sub(theta1_values[k], Mul(alpha, dJ_dtheta1_1D(theta1_values[k])))
              /\ IsGradientOfCost_1D(theta1_values[k])
    /\ In2D =>
          \A k \in 1..(Len(theta) - 1) :
              /\ theta[k + 1] =
                    <<Sub(theta[k][1], Mul(alpha, dJ_dtheta0_2D(theta[k]))),
                      Sub(theta[k][2], Mul(alpha, dJ_dtheta1_2D(theta[k])))>>
              /\ IsGradientOfCost_2D(theta[k])

C2_Witness ==
    /\ In2D /\ Len(theta) >= 3
    /\ theta[2][1] # theta[1][1] /\ theta[2][2] # theta[1][2]
    /\ theta[3][1] # theta[2][1] /\ theta[3][2] # theta[2][2]

\* C3: at every moment of a call the k-th recorded cost is the cost function
\* at the k-th recorded parameter value, on the current data
C3_CostTraceMatchesTrajectory ==
    /\ In1D => \A k \in 1..Len(J_values) :
                  J_values[k] = cost_func_1D(theta1_values[k])
    /\ In2D => \A k \in 1..Len(J) :
                  J[k] = cost_func_2D(x_2D, y, theta[k][1], theta[k][2])

C3_Witness ==
    /\ In2D /\ pc = "loop" /\ Len(J) >= 3
    /\ J[2] # J[1] /\ J[3] # J[2]

\* C4: the first entry is the start value, during the descent and after it
C4_FirstEntryIsStart ==
    /\ In1D => theta1_values[1] = theta1
    /\ In2D => theta[1] = theta_start

C4_Witness ==
    /\ In2D /\ Ended /\ Len(theta) >= 3
    /\ theta[1] = theta_start
    /\ \A k \in 2..Len(theta) : theta[k] # theta_start

\* C5: started at the true parameters, the first cost is 0 and every entry is
\* the true parameter vector
C5_FixedPointAtTrueParameters ==
    /\ (In1D /\ theta1 = theta1_true) =>
          /\ J_values[1] = Zero
          /\ \A k \in 1..Len(theta1_values) : theta1_values[k] = theta1_true
    /\ (In2D /\ theta_start = theta_true) =>
          /\ J[1] = Zero
          /\ \A k \in 1..Len(theta) : theta[k] = theta_true

C5_Witness ==
    /\ In2D /\ Ended /\ theta_start = theta_true /\ theta_true[1] # Zero
    /\ Len(theta) >= 3 /\ theta[Len(theta)] = theta_true /\ J[1] = Zero

\* C6: a call with N < 1 is rejected before anything is computed: it ends in
\* an error and no trajectory or cost entry is ever recorded
C6_InvalidNRejected ==
    (fn # "none" /\ N < 1) =>
        /\ pc \in {"UnboundLocalError", "IndexError"}
        /\ theta1_values = <<>> /\ J_values = <<>>
        /\ theta = <<>> /\ J = <<>>

\* C7: a call with N = 1 returns without raising, with the start value as
\* its one trajectory entry and the cost there as its one cost entry
C7_SingleEntryCallSucceeds ==
    /\ (In1D /\ Ended /\ N = 1) =>
          /\ pc = "returned"
          /\ theta1_values = <<theta1>>
          /\ J_values = <<cost_func_1D(theta1)>>
    /\ (In2D /\ Ended /\ N = 1) =>
          /\ pc = "returned"
          /\ theta = <<theta_start>>
          /\ J = <<cost_func_2D(x_2D, y, theta_start[1], theta_start[2])>>

----------------------------------------------------------------------------
(* calls one after another, checked under Spec *)

\* the noiseless data of a line with the parameters tt, on the x of the
\* 2D notebook
y_of(tt) == [i \in 1..m |-> Add(tt[1], Mul(tt[2], x_2D[i]))] \o <<>>

\* the two lists of update_plots after k passes of its loop, computed from
\* the arguments of the call alone
RECURSIVE descent_from_arguments(_, _, _, _)
descent_from_arguments(k, a, tt, ts) ==
    IF k = 0
    THEN [theta |-> <<ts>>,
          J     |-> <<cost_func_2D(x_2D, y_of(tt), ts[1], ts[2])>>]
    ELSE LET before == descent_from_arguments(k - 1, a, tt, ts)
         IN  descent_pass_2D(before.theta, before.J, a, x_2D, y_of(tt))

\* C11: whatever calls were made before, a call of update_plots works on the
\* y of its own theta_true and its lists are what its arguments alone give,
\* so a repeated call gives the same lists; and no call changes the x of
\* either notebook or the y of the 1D notebook
C11_CallsAreIndependent ==
    /\ x_1D = linspace(Num(-1), Num(1), m)
    /\ y_1D = [i \in 1..m |-> Mul(theta1_true, x_1D[i])] \o <<>>
    /\ x_2D = linspace(Num(-1), Num(1), m)
    /\ In2D =>
          /\ y = y_of(theta_true)
          /\ LET alone == descent_from_arguments(Len(theta) - 1, alpha,
                                                 theta_true, theta_start)
             IN  theta = alone.theta /\ J = alone.J

\* a finished call of update_plots that found the y of a call with another
\* theta_true
C11_Witness ==
    /\ In2D /\ pc = "returned" /\ N >= 3 /\ Len(theta) = N
    /\ y_found # <<>> /\ y_found # y
    /\ theta_start # theta_true
    /\ y = y_of(theta_true)

----------------------------------------------------------------------------
(* the cost surface, checked under Spec *)

\* C12: every entry of J_grid is the cost that cost_func gives when it is
\* called with the lattice value of that entry alone: in the 1D notebook entry
\* r for theta1_grid[r], in the 2D notebook entry [r][c] for (X[r][c], Y[r][c]);
\* J_grid has the shape of the lattice, and the cost of a single value is the
\* cost the descent records for it
C12_GridAgreesWithPoints ==
    /\ (In1D /\ J_grid # no_array) =>
          /\ J_grid.shape = theta1_grid.shape
          /\ \A r \in 1..Len(theta1_grid.data) :
                /\ <<J_grid.data[r]>> =
                      cost_func_1D_nd(asarray_scalar(theta1_grid.data[r])).data
                /\ J_grid.data[r] = cost_func_1D(theta1_grid.data[r])
    /\ (In2D /\ J_grid # no_array) =>
          /\ J_grid.shape = X.shape
          /\ Y.shape = X.shape
          /\ \A r \in 1..X.shape[1] : \A c \in 1..X.shape[2] :
                /\ <<at(J_grid, r, c)>> =
                      cost_func_2D_nd(asarray_1d(x_2D), asarray_1d(y),
                                      asarray_scalar(at(X, r, c)),
                                      asarray_scalar(at(Y, r, c))).data
                /\ at(J_grid, r, c) = cost_func_2D(x_2D, y, at(X, r, c), at(Y, r, c))

\* a cost surface over a lattice with several rows and several columns, whose
\* cost changes along a row and along a column
C12_Witness ==
    /\ In2D /\ pc = "returned"
    /\ X.shape = <<theta1_grid_num_2D, theta0_grid_num>>
    /\ X.shape[1] > 1 /\ X.shape[2] > 1 /\ X.shape[1] # X.shape[2]
    /\ J_grid.shape = X.shape
    /\ at(J_grid, 1, 1) # at(J_grid, 1, 2)
    /\ at(J_grid, 1, 1) # at(J_grid, 2, 1)
    /\ at(J_grid, 1, 2) # at(J_grid, 2, 1)

----------------------------------------------------------------------------
(* the default 1D setup (theta1_true = 0.5, start 0) with a small alpha *)

\* the largest N of slider_N
N_slider_max_1D == 100

N_values_small_alpha == {1, 2, 3, N_slider_max_1D}

alpha_small == Frac(1, 10)

NextSmallAlpha ==
    \/ \E n \in N_values_small_alpha : update_plot(n, alpha_small, Zero)
    \/ update_plot_descend
    \/ update_plot_finish
    \/ call_ends

SpecSmallAlpha == Init /\ [][NextSmallAlpha]_vars

\* C9: with alpha = 0.1 the recorded costs never increase
C9_CostNeverIncreases ==
    (In1D /\ alpha = alpha_small /\ theta1 = Zero) =>
        \A k \in 1..(Len(J_values) - 1) : LessEq(J_values[k + 1], J_values[k])

C9_Witness ==
    /\ In1D /\ pc = "returned" /\ alpha = alpha_small /\ theta1 = Zero
    /\ N = N_slider_max_1D /\ Len(J_values) = N
    /\ Less(J_values[N], J_values[N - 1])

----------------------------------------------------------------------------
(* the default 1D setup with a large alpha *)

\* the largest N tried with the large learning rates
MaxNLargeAlpha == 10

alpha_5 == Num(5)

alpha_6 == Num(6)

NextLargeAlpha ==
    \/ \E n \in 1..MaxNLargeAlpha, a \in {alpha_5, alpha_6} :
          update_plot(n, a, Zero)
    \/ update_plot_descend
    \/ update_plot_finish
    \/ call_ends

SpecLargeAlpha == Init /\ [][NextLargeAlpha]_vars

\* C8 as stated: with alpha = 5.0 the last recorded cost is greater than the
\* first (stated for N >= 2: for N = 1 the last cost is the first)
C8_LastCostGreaterAtAlpha5 ==
    (In1D /\ Ended /\ alpha = alpha_5 /\ theta1 = Zero /\ N >= 2) =>
        Less(J_values[1], J_values[Len(J_values)])

\* C8 as amended: with alpha = 5.0 every step shrinks the cost, so for N >= 2
\* the last recorded cost is smaller than the first; the last cost is greater
\* than the first for alpha = 6.0 and N >= 2
C8_Alpha5ConvergesAlpha6Diverges ==
    /\ (In1D /\ alpha = alpha_5 /\ theta1 = Zero) =>
          \A k \in 1..(Len(J_values) - 1) : Less(J_values[k + 1], J_values[k])
    /\ (In1D /\ Ended /\ alpha = alpha_5 /\ theta1 = Zero /\ N >= 2) =>
          Less(J_values[N], J_values[1])
    /\ (In1D /\ Ended /\ alpha = alpha_6 /\ theta1 = Zero /\ N >= 2) =>
          Less(J_values[1], J_values[N])

C8_Witness ==
    /\ In1D /\ pc = "returned" /\ alpha = alpha_5 /\ theta1 = Zero
    /\ N >= 10 /\ Len(J_values) = N
    /\ Less(J_values[N], J_values[1])

----------------------------------------------------------------------------
(* the two demo scenarios: the values the sliders start at, N up to its
   start value *)

N_slider_value_1D == 20

alpha_slider_value_1D == Frac(23, 20)

N_slider_min_2D == 2

N_slider_value_2D == 15

alpha_slider_value_2D == Frac(7, 10)

theta_true_slider_value == <<Num(2), Num(2)>>

NextCanonical ==
    \/ \E n \in 1..N_slider_value_1D :
          update_plot(n, alpha_slider_value_1D, Zero)
    \/ update_plot_descend
    \/ update_plot_finish
    \/ \E n \in N_slider_min_2D..N_slider_value_2D :
          update_plots(n, alpha_slider_value_2D, theta_true_slider_value,
                       <<Zero, Zero>>)
    \/ update_plots_descend
    \/ update_plots_finish
    \/ call_ends

SpecCanonical == Init /\ [][NextCanonical]_vars

\* the distance of a parameter value from its true value
Distance(t, t_true) == Abs(Sub(t, t_true))

\* C10: in the demo scenarios every step brings each component strictly
\* closer to its true value while it is not there, and after the N of the
\* scenario the final entry is closer to the true parameters, and its cost
\* smaller, than every earlier one
C10_CanonicalRunsConverge ==
    /\ In1D =>
          /\ \A k \in 1..(Len(theta1_values) - 1) :
                theta1_values[k] # theta1_true =>
                    Less(Distance(theta1_values[k + 1], theta1_true),
                         Distance(theta1_values[k], theta1_true))
          /\ (Ended /\ N = N_slider_value_1D) =>
                \A k \in 1..(N - 1) :
                    /\ Less(Distance(theta1_values[N], theta1_true),
                            Distance(theta1_values[k], theta1_true))
                    /\ Less(J_values[N], J_values[k])
    /\ In2D =>
          /\ \A k \in 1..(Len(theta) - 1) : \A c \in 1..2 :
                theta[k][c] # theta_true[c] =>
                    Less(Distance(theta[k + 1][c], theta_true[c]),
                         Distance(theta[k][c], theta_true[c]))
          /\ (Ended /\ N = N_slider_value_2D) =>
                \A k \in 1..(N - 1) :
                    /\ \A c \in 1..2 :
                          Less(Distance(theta[N][c], theta_true[c]),
                               Distance(theta[k][c], theta_true[c]))
                    /\ Less(J[N], J[k])

C10_Witness ==
    /\ In2D /\ pc = "returned" /\ N = N_slider_value_2D /\ Len(theta) = N
    /\ theta[1] = <<Zero, Zero>> /\ theta_true = theta_true_slider_value
    /\ theta[N][1] # theta_true[1] /\ theta[N][2] # theta_true[2]
    /\ Less(Zero, J[N])

====
